---- MODULE Spec2Model ----
(***************************************************************************)
(* Minesweeper board engine (src/lib/minesweeper.ts) and the game reducer  *)
(* (src/components/Game.tsx).                                              *)
(*                                                                         *)
(* A Board is a function row -> col -> CellState with 0-based indices, as  *)
(* CellState[][] in the source.  The reducer's GameState fields are the    *)
(* variables board, status, difficulty, flagCount, elapsed, startTime and  *)
(* losingCell.  The variables inp and out hold the argument and the result *)
(* of a library function when one is applied to an arbitrary input board   *)
(* (the specifications of the library); they are idle in the game (Spec).  *)
(***************************************************************************)
EXTENDS Integers, Sequences, FiniteSets, TLC

VARIABLES board, status, difficulty, flagCount, elapsed, startTime, losingCell,
          inp, out

vars == <<board, status, difficulty, flagCount, elapsed, startTime, losingCell,
          inp, out>>

gameVars == <<board, status, difficulty, flagCount, elapsed, startTime, losingCell>>

\* ---------------------------------------------------------------- bounds
\* The timer is stopped after MaxElapsed ticks and the player holds at most
\* MaxFlags flags at a time.
MaxElapsed == 1
MaxFlags == 2

NULL == "null"

Difficulty == {"beginner", "intermediate", "expert"}

\* The source's boards (9x9 with 10 mines, 16x16 with 40, 16x30 with 99) are
\* scaled down so that every mine layout and every order of moves can be
\* enumerated.  As in the source, each difficulty is a rectangle whose mine
\* count fits in the cells left outside the exclusion zone of any first click.
\* beginner has cells with all eight neighbours, intermediate has cells next
\* to two mines, expert is a single row.
DIFFICULTIES ==
  [beginner |-> [rows |-> 3, cols |-> 4, mines |-> 1],
   intermediate |-> [rows |-> 2, cols |-> 5, mines |-> 2],
   expert |-> [rows |-> 1, cols |-> 5, mines |-> 2]]

\* ---------------------------------------------------------------- helpers
makeCell ==
  [isMine |-> FALSE, isRevealed |-> FALSE, isFlagged |-> FALSE, adjacentMines |-> 0]

\* board.length and board[0].length
NumRows(b) == Cardinality(DOMAIN b)
NumCols(b) == Cardinality(DOMAIN b[0])

\* The coordinates of the cells of a board.
Coords(b) == (DOMAIN b) \X (DOMAIN b[0])

\* The (dr, dc) pairs in the order of the two nested loops, (0,0) skipped.
Offsets ==
  << <<-1, -1>>, <<-1, 0>>, <<-1, 1>>, <<0, -1>>, <<0, 1>>, <<1, -1>>, <<1, 0>>, <<1, 1>> >>

neighbors(b, row, col) ==
  LET rows == NumRows(b)
      cols == NumCols(b)
      all == [k \in 1 .. 8 |-> <<row + Offsets[k][1], col + Offsets[k][2]>>]
      ok(p) == p[1] >= 0 /\ p[1] < rows /\ p[2] >= 0 /\ p[2] < cols
  IN  SelectSeq(all, ok)

SeqToSet(s) == {s[k] : k \in 1 .. Len(s)}

makeEmptyBoard(rows, cols) ==
  [r \in 0 .. rows - 1 |-> [c \in 0 .. cols - 1 |-> makeCell]]

\* ---------------------------------------------------------------- placeMines
\* excludedSet with the row stride taken from the number of rows.
excludedSet_rowStride(b, safeRow, safeCol) ==
  LET rows == NumRows(b)
  IN  {safeRow * rows + safeCol}
        \cup {p[1] * rows + p[2] : p \in SeqToSet(neighbors(b, safeRow, safeCol))}

\* The exclusion set of flat indices r * cols + c.
excludedSet(b, safeRow, safeCol) ==
  LET cols == NumCols(b)
  IN  {safeRow * cols + safeCol}
        \cup {p[1] * cols + p[2] : p \in SeqToSet(neighbors(b, safeRow, safeCol))}

\* The candidate positions, in ascending order as the loop pushes them.
RECURSIVE candidatesFrom(_, _, _)
candidatesFrom(i, n, excluded) ==
  IF i >= n THEN <<>>
  ELSE IF i \in excluded THEN candidatesFrom(i + 1, n, excluded)
  ELSE <<i>> \o candidatesFrom(i + 1, n, excluded)

candidatesOf(b, safeRow, safeCol) ==
  candidatesFrom(0, NumRows(b) * NumCols(b), excludedSet(b, safeRow, safeCol))

Min(a, b) == IF a < b THEN a ELSE b

\* [s[i], s[j]] = [s[j], s[i]] on 0-based positions.
swap(s, i, j) == [s EXCEPT ![i + 1] = s[j + 1], ![j + 1] = s[i + 1]]

\* The Fisher-Yates loop from position i down to 1: Math.random() is free, so
\* j is any of 0..i at every step.  S is the set of orders possible so far.
RECURSIVE shuffleFrom(_, _)
shuffleFrom(S, i) ==
  IF i <= 0 THEN S
  ELSE shuffleFrom({swap(s, i, j) : s \in S, j \in 0 .. i}, i - 1)

fisherYates(candidates) == shuffleFrom({candidates}, Len(candidates) - 1)

\* candidates.slice(0, mines), for mines >= 0.
sliceTo_oneMore(s, mines) == SubSeq(s, 1, Min(mines + 1, Len(s)))

sliceTo(s, mines) == SubSeq(s, 1, Min(mines, Len(s)))

\* new Set(candidates.slice(0, mines)) for every order the shuffle can leave.
shuffledMineSets(candidates, mines) ==
  {SeqToSet(sliceTo(s, mines)) : s \in fisherYates(candidates)}

\* The same sets in closed form: the loop can leave every order, so the slice
\* is any set of min(mines, candidates.length) candidates.  The game uses this
\* form, which needs no enumeration of the orders; ShuffleTakesAnySubset
\* checks it against the loop.
mineSetsOf_withRepeats(candidates, mines) ==
  {S \in SUBSET SeqToSet(candidates) :
     Cardinality(S) >= Min(1, Min(mines, Len(candidates))) /\
     Cardinality(S) <= Min(mines, Len(candidates))}

mineSetsOf(candidates, mines) ==
  {S \in SUBSET SeqToSet(candidates) : Cardinality(S) = Min(mines, Len(candidates))}

\* withMines reading the flat index with row and column exchanged.
withMines_transposed(b, mineSet) ==
  LET cols == NumCols(b)
  IN  [r \in DOMAIN b |-> [c \in DOMAIN b[r] |->
        [b[r][c] EXCEPT !.isMine = (c * cols + r) \in mineSet]]]

withMines(b, mineSet) ==
  LET cols == NumCols(b)
  IN  [r \in DOMAIN b |-> [c \in DOMAIN b[r] |->
        [b[r][c] EXCEPT !.isMine = (r * cols + c) \in mineSet]]]

\* The set of boards placeMines can return, with the shuffle in closed form
\* (placeMines) and with the shuffle run step by step (placeMinesShuffled).
placeMines(b, mines, safeRow, safeCol) ==
  {withMines(b, S) : S \in mineSetsOf(candidatesOf(b, safeRow, safeCol), mines)}

placeMinesShuffled(b, mines, safeRow, safeCol) ==
  {withMines(b, S) : S \in shuffledMineSets(candidatesOf(b, safeRow, safeCol), mines)}

\* ---------------------------------------------------------------- computeAdjacent
countMines(b, nbrs) ==
  Cardinality({k \in 1 .. Len(nbrs) : b[nbrs[k][1]][nbrs[k][2]].isMine})

\* computeAdjacent leaving the count of a mine cell as it was.
computeAdjacent_keepMineCount(b) ==
  [r \in DOMAIN b |-> [c \in DOMAIN b[r] |->
     IF b[r][c].isMine
       THEN b[r][c]
       ELSE [b[r][c] EXCEPT !.adjacentMines = countMines(b, neighbors(b, r, c))]]]

computeAdjacent(b) ==
  [r \in DOMAIN b |-> [c \in DOMAIN b[r] |->
     IF b[r][c].isMine
       THEN [b[r][c] EXCEPT !.adjacentMines = 0]
       ELSE [b[r][c] EXCEPT !.adjacentMines = countMines(b, neighbors(b, r, c))]]]

\* ---------------------------------------------------------------- revealCell
setRevealed(b, r, c) == [b EXCEPT ![r][c].isRevealed = TRUE]

\* revealNeighbors revealing flagged neighbours too.
RECURSIVE revealNeighbors_ignoreFlags(_, _, _)
revealNeighbors_ignoreFlags(next, queue, nbrs) ==
  IF nbrs = <<>> THEN <<next, queue>>
  ELSE LET nr == Head(nbrs)[1]
           nc == Head(nbrs)[2]
       IN  IF ~next[nr][nc].isRevealed
             THEN revealNeighbors_ignoreFlags(setRevealed(next, nr, nc),
                                              Append(queue, <<nr, nc>>), Tail(nbrs))
             ELSE revealNeighbors_ignoreFlags(next, queue, Tail(nbrs))

\* The for loop over the neighbours of a dequeued zero cell: returns the
\* pair <<next, queue>>.
RECURSIVE revealNeighbors(_, _, _)
revealNeighbors(next, queue, nbrs) ==
  IF nbrs = <<>> THEN <<next, queue>>
  ELSE LET nr == Head(nbrs)[1]
           nc == Head(nbrs)[2]
       IN  IF ~next[nr][nc].isRevealed /\ ~next[nr][nc].isFlagged
             THEN revealNeighbors(setRevealed(next, nr, nc),
                                  Append(queue, <<nr, nc>>), Tail(nbrs))
             ELSE revealNeighbors(next, queue, Tail(nbrs))

\* floodFill spreading from every dequeued cell with a zero count, mines too.
RECURSIVE floodFill_noMineCheck(_, _)
floodFill_noMineCheck(next, queue) ==
  IF queue = <<>> THEN next
  ELSE LET r == Head(queue)[1]
           c == Head(queue)[2]
           rest == Tail(queue)
       IN  IF next[r][c].adjacentMines = 0
             THEN LET s == revealNeighbors(next, rest, neighbors(next, r, c))
                  IN  floodFill_noMineCheck(s[1], s[2])
             ELSE floodFill_noMineCheck(next, rest)

\* floodFill spreading from every dequeued cell that is not a mine, numbered
\* cells too.
RECURSIVE floodFill_noZeroCheck(_, _)
floodFill_noZeroCheck(next, queue) ==
  IF queue = <<>> THEN next
  ELSE LET r == Head(queue)[1]
           c == Head(queue)[2]
           rest == Tail(queue)
       IN  IF ~next[r][c].isMine
             THEN LET s == revealNeighbors(next, rest, neighbors(next, r, c))
                  IN  floodFill_noZeroCheck(s[1], s[2])
             ELSE floodFill_noZeroCheck(next, rest)

\* The while loop over the queue.
RECURSIVE floodFill(_, _)
floodFill(next, queue) ==
  IF queue = <<>> THEN next
  ELSE LET r == Head(queue)[1]
           c == Head(queue)[2]
           rest == Tail(queue)
       IN  IF next[r][c].adjacentMines = 0 /\ ~next[r][c].isMine
             THEN LET s == revealNeighbors(next, rest, neighbors(next, r, c))
                  IN  floodFill(s[1], s[2])
             ELSE floodFill(next, rest)

revealCell(b, row, col) ==
  IF b[row][col].isRevealed \/ b[row][col].isFlagged THEN b
  ELSE floodFill(setRevealed(b, row, col), << <<row, col>> >>)

\* ---------------------------------------------------------------- toggleFlag
\* toggleFlag putting a fresh cell in place of a copy of the old one.
toggleFlag_freshCell(b, row, col) ==
  IF b[row][col].isRevealed THEN b
  ELSE [b EXCEPT ![row][col] = [makeCell EXCEPT !.isFlagged = ~b[row][col].isFlagged]]

toggleFlag(b, row, col) ==
  IF b[row][col].isRevealed THEN b
  ELSE [b EXCEPT ![row][col].isFlagged = ~b[row][col].isFlagged]

\* ---------------------------------------------------------------- chordReveal
countFlagged(b, nbrs) ==
  Cardinality({k \in 1 .. Len(nbrs) : b[nbrs[k][1]][nbrs[k][2]].isFlagged})

\* The for loop over nbrs: the test reads the input board, the reveal
\* accumulates in next.
RECURSIVE chordLoop(_, _, _)
chordLoop(b, next, nbrs) ==
  IF nbrs = <<>> THEN next
  ELSE LET r == Head(nbrs)[1]
           c == Head(nbrs)[2]
       IN  IF ~b[r][c].isFlagged /\ ~b[r][c].isRevealed
             THEN chordLoop(b, revealCell(next, r, c), Tail(nbrs))
             ELSE chordLoop(b, next, Tail(nbrs))

\* chordGate opening as soon as enough flags are placed.
chordGate_atLeast(flagged, adjacentMines) == flagged >= adjacentMines

chordGate(flagged, adjacentMines) == flagged = adjacentMines

chordReveal(b, row, col) ==
  IF ~b[row][col].isRevealed \/ b[row][col].adjacentMines = 0 THEN b
  ELSE LET nbrs == neighbors(b, row, col)
           flagged == countFlagged(b, nbrs)
       IN  IF ~chordGate(flagged, b[row][col].adjacentMines) THEN b
           ELSE chordLoop(b, b, nbrs)

\* ---------------------------------------------------------------- checkWin
revealedCount(b) == Cardinality({p \in Coords(b) : b[p[1]][p[2]].isRevealed})
totalCount(b) == Cardinality(Coords(b))

checkWin(b, totalMines) == revealedCount(b) = totalCount(b) - totalMines

\* ---------------------------------------------------------------- revealAllMines
\* Revealing the mines at a loss but skipping the flagged ones.
revealAllMines_skipFlagged(b) ==
  [r \in DOMAIN b |-> [c \in DOMAIN b[r] |->
     IF b[r][c].isMine /\ ~b[r][c].isFlagged
       THEN [b[r][c] EXCEPT !.isRevealed = TRUE] ELSE b[r][c]]]

revealAllMines(b) ==
  [r \in DOMAIN b |-> [c \in DOMAIN b[r] |->
     IF b[r][c].isMine THEN [b[r][c] EXCEPT !.isRevealed = TRUE] ELSE b[r][c]]]

\* ================================================================ reducer
NoCall == [fn |-> "none"]
NoResult == [done |-> FALSE]

\* makeInitialState keeping the clock of the game it replaces.
makeInitialState_keepElapsed(d) ==
  /\ board' = makeEmptyBoard(DIFFICULTIES[d].rows, DIFFICULTIES[d].cols)
  /\ status' = "idle"
  /\ difficulty' = d
  /\ flagCount' = 0
  /\ UNCHANGED elapsed
  /\ startTime' = NULL
  /\ losingCell' = NULL

makeInitialState(d) ==
  /\ board' = makeEmptyBoard(DIFFICULTIES[d].rows, DIFFICULTIES[d].cols)
  /\ status' = "idle"
  /\ difficulty' = d
  /\ flagCount' = 0
  /\ elapsed' = 0
  /\ startTime' = NULL
  /\ losingCell' = NULL

Init ==
  /\ board = makeEmptyBoard(DIFFICULTIES["beginner"].rows, DIFFICULTIES["beginner"].cols)
  /\ status = "idle"
  /\ difficulty = "beginner"
  /\ flagCount = 0
  /\ elapsed = 0
  /\ startTime = NULL
  /\ losingCell = NULL
  /\ inp = NoCall
  /\ out = NoResult

NEW_GAME ==
  /\ makeInitialState(difficulty)
  /\ UNCHANGED <<inp, out>>

SET_DIFFICULTY(d) ==
  /\ makeInitialState(d)
  /\ UNCHANGED <<inp, out>>

\* TICK counting in every status but idle.
TICK_afterTheEnd ==
  IF status = "idle"
       THEN UNCHANGED vars
       ELSE /\ elapsed < MaxElapsed
            /\ elapsed' = elapsed + 1
            /\ UNCHANGED <<board, status, difficulty, flagCount, startTime, losingCell,
                           inp, out>>

TICK ==
  IF status # "playing"
       THEN UNCHANGED vars
       ELSE /\ elapsed < MaxElapsed
            /\ elapsed' = elapsed + 1
            /\ UNCHANGED <<board, status, difficulty, flagCount, startTime, losingCell,
                           inp, out>>

\* FLAG whose guard forgets the lost status.
FLAG_noLostGuard(row, col) ==
  IF status = "won" THEN UNCHANGED vars
  ELSE IF board[row][col].isRevealed THEN UNCHANGED vars
  ELSE LET wasIdle == status = "idle"
           newBoard == toggleFlag(board, row, col)
           delta == IF newBoard[row][col].isFlagged THEN 1 ELSE -1
       IN  /\ flagCount + delta <= MaxFlags
           /\ board' = newBoard
           /\ flagCount' = flagCount + delta
           /\ status' = IF wasIdle THEN "playing" ELSE status
           /\ UNCHANGED <<difficulty, elapsed, startTime, losingCell, inp, out>>

\* FLAG adding 1 to flagCount when it removes a flag too.
FLAG_alwaysAdds(row, col) ==
  IF status = "won" \/ status = "lost" THEN UNCHANGED vars
  ELSE IF board[row][col].isRevealed THEN UNCHANGED vars
  ELSE LET wasIdle == status = "idle"
           newBoard == toggleFlag(board, row, col)
           delta == 1
       IN  /\ flagCount + delta <= MaxFlags
           /\ board' = newBoard
           /\ flagCount' = flagCount + delta
           /\ status' = IF wasIdle THEN "playing" ELSE status
           /\ UNCHANGED <<difficulty, elapsed, startTime, losingCell, inp, out>>

FLAG(row, col) ==
  IF status = "won" \/ status = "lost" THEN UNCHANGED vars
  ELSE IF board[row][col].isRevealed THEN UNCHANGED vars
  ELSE LET wasIdle == status = "idle"
           newBoard == toggleFlag(board, row, col)
           delta == IF newBoard[row][col].isFlagged THEN 1 ELSE -1
       IN  /\ flagCount + delta <= MaxFlags
           /\ board' = newBoard
           /\ flagCount' = flagCount + delta
           /\ status' = IF wasIdle THEN "playing" ELSE status
           /\ UNCHANGED <<difficulty, elapsed, startTime, losingCell, inp, out>>

\* The part of REVEAL after the first-click block, on the board b1 and the
\* status s1 that block leaves.  b2 is the board revealCell returns.
revealOutcome(b1, s1, row, col) ==
  \E b2 \in {revealCell(b1, row, col)} :
    LET mines == DIFFICULTIES[difficulty].mines
    IN  IF b2[row][col].isMine
          THEN /\ status' = "lost"
               /\ losingCell' = <<row, col>>
               /\ board' = revealAllMines(b2)
          ELSE IF checkWin(b2, mines)
          THEN /\ status' = "won"
               /\ UNCHANGED losingCell
               /\ board' = b2
          ELSE /\ status' = s1
               /\ UNCHANGED losingCell
               /\ board' = b2

\* REVEAL whose guard forgets the flag on the cell.
REVEAL_onFlagged(row, col) ==
  IF status = "won" \/ status = "lost" THEN UNCHANGED vars
  ELSE IF board[row][col].isRevealed THEN UNCHANGED vars
  ELSE /\ UNCHANGED <<difficulty, flagCount, elapsed, startTime, inp, out>>
       /\ IF status = "idle"
            THEN \E placed \in placeMines(board, DIFFICULTIES[difficulty].mines, row, col) :
                   revealOutcome(computeAdjacent(placed), "playing", row, col)
            ELSE revealOutcome(board, status, row, col)

REVEAL(row, col) ==
  IF status = "won" \/ status = "lost" THEN UNCHANGED vars
  ELSE IF board[row][col].isRevealed \/ board[row][col].isFlagged THEN UNCHANGED vars
  ELSE /\ UNCHANGED <<difficulty, flagCount, elapsed, startTime, inp, out>>
       /\ IF status = "idle"
            THEN \E placed \in placeMines(board, DIFFICULTIES[difficulty].mines, row, col) :
                   revealOutcome(computeAdjacent(placed), "playing", row, col)
            ELSE revealOutcome(board, status, row, col)

\* The scan returning the last revealed mine instead of the first.
firstRevealedMine_last(b) ==
  LET hits == {p \in Coords(b) : b[p[1]][p[2]].isMine /\ b[p[1]][p[2]].isRevealed}
  IN  IF hits = {} THEN NULL
      ELSE CHOOSE p \in hits :
             \A q \in hits : q[1] < p[1] \/ (q[1] = p[1] /\ q[2] <= p[2])

\* The row-major scan for a revealed mine: the first one found, or NULL.
firstRevealedMine(b) ==
  LET hits == {p \in Coords(b) : b[p[1]][p[2]].isMine /\ b[p[1]][p[2]].isRevealed}
  IN  IF hits = {} THEN NULL
      ELSE CHOOSE p \in hits :
             \A q \in hits : p[1] < q[1] \/ (p[1] = q[1] /\ p[2] <= q[2])

\* The scan of the whole board for a revealed mine, and what follows it, on
\* the board b1 that chordReveal returned.
chordOutcome(b1, hit) ==
  LET mines == DIFFICULTIES[difficulty].mines
  IN  IF hit # NULL
        THEN /\ status' = "lost"
             /\ losingCell' = hit
             /\ board' = revealAllMines(b1)
        ELSE IF checkWin(b1, mines)
        THEN /\ status' = "won"
             /\ UNCHANGED losingCell
             /\ board' = b1
        ELSE /\ UNCHANGED <<status, losingCell>>
             /\ board' = b1

CHORD(row, col) ==
  IF status # "playing" THEN UNCHANGED vars
  ELSE /\ UNCHANGED <<difficulty, flagCount, elapsed, startTime, inp, out>>
       /\ \E b1 \in {chordReveal(board, row, col)} :
            \E hit \in {firstRevealedMine(b1)} : chordOutcome(b1, hit)

Next ==
  \/ NEW_GAME
  \/ \E d \in Difficulty : SET_DIFFICULTY(d)
  \/ TICK
  \/ \E p \in Coords(board) : FLAG(p[1], p[2])
  \/ \E p \in Coords(board) : REVEAL(p[1], p[2])
  \/ \E p \in Coords(board) : CHORD(p[1], p[2])

Spec == Init /\ [][Next]_vars

\* ================================================================ library
\* SpecPlaceMines, SpecRevealCell, SpecChordReveal and SpecCheckWin each apply
\* one function of src/lib/minesweeper.ts to one input: inp is the call
\* (function name and arguments), out its result.

\* Bounds of the input boards: at most LibMaxMines mines, LibMaxFlagged flagged
\* and LibMaxRevealed revealed cells; mine counts asked of placeMines and
\* checkWin range over 0..LibMaxCount.
LibMaxMines == 2
LibMaxFlagged == 2
LibMaxRevealed == 2
LibMaxCount == 3

Adjacent(p, q) ==
  /\ p # q
  /\ p[1] - q[1] \in {-1, 0, 1}
  /\ p[2] - q[2] \in {-1, 0, 1}

Grid(rows, cols) == (0 .. rows - 1) \X (0 .. cols - 1)

upTo(S, k) == {T \in SUBSET S : Cardinality(T) <= k}

\* The rows x cols board with mines M, revealed cells R, flagged cells F and
\* the adjacency counts of M.
boardOf(rows, cols, M, R, F) ==
  [r \in 0 .. rows - 1 |-> [c \in 0 .. cols - 1 |->
     [isMine |-> <<r, c>> \in M,
      isRevealed |-> <<r, c>> \in R,
      isFlagged |-> <<r, c>> \in F,
      adjacentMines |-> IF <<r, c>> \in M THEN 0
                        ELSE Cardinality({q \in M : Adjacent(<<r, c>>, q)})]]]

\* Boards for revealCell and chordReveal.
PlayShapes == {<<2, 3>>, <<1, 4>>}

PlayBoards(sh) ==
  {boardOf(sh[1], sh[2], M, R, F) :
     M \in upTo(Grid(sh[1], sh[2]), LibMaxMines),
     R \in upTo(Grid(sh[1], sh[2]), LibMaxRevealed),
     F \in upTo(Grid(sh[1], sh[2]), LibMaxFlagged)}

\* Boards for checkWin: any mines, any revealed cells.
CountShapes == {<<2, 2>>, <<1, 3>>}

CountBoards(sh) ==
  {boardOf(sh[1], sh[2], M, R, {}) :
     M \in SUBSET Grid(sh[1], sh[2]), R \in SUBSET Grid(sh[1], sh[2])}

\* Boards for placeMines: blank, or with every cell already a flagged mine
\* with a stale count.
PlaceShapes == {<<3, 3>>, <<2, 4>>, <<1, 5>>}

usedBoard(rows, cols) ==
  [r \in 0 .. rows - 1 |-> [c \in 0 .. cols - 1 |->
     [isMine |-> TRUE, isRevealed |-> FALSE, isFlagged |-> TRUE, adjacentMines |-> 1]]]

PlaceBoards(sh) == {makeEmptyBoard(sh[1], sh[2]), usedBoard(sh[1], sh[2])}

\* Boards for computeAdjacent: any mines, the first cell revealed or not, the
\* last cell flagged or not, and every cell carrying the same stale count.
AdjShapes == {<<3, 3>>, <<1, 4>>}

StaleCounts == {0, 5}

staleBoard(rows, cols, M, R, F, k) ==
  [r \in 0 .. rows - 1 |-> [c \in 0 .. cols - 1 |->
     [isMine |-> <<r, c>> \in M,
      isRevealed |-> <<r, c>> \in R,
      isFlagged |-> <<r, c>> \in F,
      adjacentMines |-> k]]]

AdjBoards(sh) ==
  {staleBoard(sh[1], sh[2], M, R, F, k) :
     M \in SUBSET Grid(sh[1], sh[2]),
     R \in {{}, {<<0, 0>>}},
     F \in {{}, {<<sh[1] - 1, sh[2] - 1>>}},
     k \in StaleCounts}

\* The game is not running while a library function is applied.
InitCall(call) ==
  /\ board = makeEmptyBoard(DIFFICULTIES["beginner"].rows, DIFFICULTIES["beginner"].cols)
  /\ status = "idle"
  /\ difficulty = "beginner"
  /\ flagCount = 0
  /\ elapsed = 0
  /\ startTime = NULL
  /\ losingCell = NULL
  /\ inp = call
  /\ out = NoResult

Return(v) ==
  /\ out' = [done |-> TRUE, val |-> v]
  /\ UNCHANGED <<inp, gameVars>>

CallPlaceMines ==
  /\ inp.fn = "placeMines" /\ ~out.done
  /\ \E b \in placeMinesShuffled(inp.board, inp.mines, inp.row, inp.col) : Return(b)

CallRevealCell ==
  /\ inp.fn = "revealCell" /\ ~out.done
  /\ Return(revealCell(inp.board, inp.row, inp.col))

CallChordReveal ==
  /\ inp.fn = "chordReveal" /\ ~out.done
  /\ Return(chordReveal(inp.board, inp.row, inp.col))

CallCheckWin ==
  /\ inp.fn = "checkWin" /\ ~out.done
  /\ Return(checkWin(inp.board, inp.mines))

CallComputeAdjacent ==
  /\ inp.fn = "computeAdjacent" /\ ~out.done
  /\ Return(computeAdjacent(inp.board))

InitComputeAdjacent ==
  \E sh \in AdjShapes :
    \E b \in AdjBoards(sh) : InitCall([fn |-> "computeAdjacent", board |-> b])

SpecComputeAdjacent == InitComputeAdjacent /\ [][CallComputeAdjacent]_vars

InitPlaceMines ==
  \E sh \in PlaceShapes :
    \E b \in PlaceBoards(sh), n \in 0 .. LibMaxCount, p \in Grid(sh[1], sh[2]) :
      InitCall([fn |-> "placeMines", board |-> b, mines |-> n, row |-> p[1], col |-> p[2]])

SpecPlaceMines == InitPlaceMines /\ [][CallPlaceMines]_vars

InitRevealCell ==
  \E sh \in PlayShapes :
    \E b \in PlayBoards(sh), p \in Grid(sh[1], sh[2]) :
      InitCall([fn |-> "revealCell", board |-> b, row |-> p[1], col |-> p[2]])

SpecRevealCell == InitRevealCell /\ [][CallRevealCell]_vars

InitChordReveal ==
  \E sh \in PlayShapes :
    \E b \in PlayBoards(sh), p \in Grid(sh[1], sh[2]) :
      InitCall([fn |-> "chordReveal", board |-> b, row |-> p[1], col |-> p[2]])

SpecChordReveal == InitChordReveal /\ [][CallChordReveal]_vars

\* revealCell or chordReveal applied to one input.
InitReveal == InitRevealCell \/ InitChordReveal

SpecReveal == InitReveal /\ [][CallRevealCell \/ CallChordReveal]_vars

InitCheckWin ==
  \E sh \in CountShapes :
    \E b \in CountBoards(sh), n \in 0 .. LibMaxCount + 1 :
      InitCall([fn |-> "checkWin", board |-> b, mines |-> n])

SpecCheckWin == InitCheckWin /\ [][CallCheckWin]_vars

\* ================================================================ properties
cellAt(b, p) == b[p[1]][p[2]]
Mines(b) == {p \in Coords(b) : cellAt(b, p).isMine}
Revealed(b) == {p \in Coords(b) : cellAt(b, p).isRevealed}
Flagged(b) == {p \in Coords(b) : cellAt(b, p).isFlagged}
Hidden(b) == Coords(b) \ Revealed(b)
ZeroCells(b) == {p \in Coords(b) : ~cellAt(b, p).isMine /\ cellAt(b, p).adjacentMines = 0}
Terminal == {"won", "lost"}
AnyRevealed(b) == \E r \in DOMAIN b : \E c \in DOMAIN b[r] : b[r][c].isRevealed
Target == <<inp.row, inp.col>>

\* The closed form of the mine sets is what the Fisher-Yates loop and the
\* slice produce, on every input of SpecPlaceMines.
ShuffleTakesAnySubset ==
  inp.fn = "placeMines" =>
    LET candidates == candidatesOf(inp.board, inp.row, inp.col)
    IN  shuffledMineSets(candidates, inp.mines) = mineSetsOf(candidates, inp.mines)

\* C1: the board placeMines returns has no mine on the safe cell nor on any
\* of its in-bounds neighbours, whatever the shuffle selects.
C1_SafeZoneHasNoMine ==
  (inp.fn = "placeMines" /\ out.done) =>
    \A q \in Coords(out.val) :
      (q = Target \/ Adjacent(q, Target)) => ~cellAt(out.val, q).isMine

\* placeMines has put mines on a board whose safe cell was a mine before.
C1_Witness ==
  /\ inp.fn = "placeMines" /\ out.done
  /\ cellAt(inp.board, Target).isMine
  /\ Cardinality(Mines(out.val)) = LibMaxCount

\* C2: the first accepted REVEAL of a game (the step that reveals the first
\* cells, whether or not FLAG moves came before) never loses: its target is
\* not a mine and has adjacentMines = 0 afterwards.
C2_FirstRevealIsSafe ==
  [][(status \notin Terminal /\ ~AnyRevealed(board) /\ AnyRevealed(board')) =>
       \A p \in Revealed(board') \ Flagged(board) :
         REVEAL(p[1], p[2])
           => (/\ status' # "lost"
               /\ ~cellAt(board', p).isMine
               /\ cellAt(board', p).adjacentMines = 0)]_vars

\* The first REVEAL has placed the mines and left the game running.
C2_Witness ==
  /\ status = "playing"
  /\ Revealed(board) # {}
  /\ Cardinality(Mines(board)) = DIFFICULTIES[difficulty].mines
  /\ elapsed = 0 /\ flagCount = 0

\* C3: in every state that is not idle the board holds exactly the mine count
\* of the difficulty, and an idle board holds no mine.
C3_MinesPlacedUnlessIdle ==
  /\ status = "idle" => Mines(board) = {}
  /\ status # "idle" => Cardinality(Mines(board)) = DIFFICULTIES[difficulty].mines

\* C4: in a playing or won state, the status is won exactly when every cell
\* that is not a mine is revealed.
C4_WonIffAllSafeRevealed ==
  status \in {"playing", "won"} =>
    (status = "won" <=> (Coords(board) \ Mines(board)) \subseteq Revealed(board))

\* C5: no cell is both revealed and flagged.
C5_NeverRevealedAndFlagged ==
  Revealed(board) \cap Flagged(board) = {}

Move ==
  \/ TICK
  \/ \E p \in Coords(board) : FLAG(p[1], p[2]) \/ REVEAL(p[1], p[2]) \/ CHORD(p[1], p[2])

Reset == NEW_GAME \/ \E d \in Difficulty : SET_DIFFICULTY(d)

\* C6: in a won or lost state REVEAL, FLAG, CHORD and TICK leave every field
\* unchanged, and a step that changes the state is a NEW_GAME or a
\* SET_DIFFICULTY.
C6_TerminalIgnoresMoves ==
  [][(status \in Terminal) => (UNCHANGED vars \/ (~Move /\ Reset))]_vars

\* A game has ended with time on the clock and a flag on the board.
C6_Witness ==
  /\ status \in Terminal
  /\ elapsed > 0
  /\ Flagged(board) # {}

\* C7: an accepted REVEAL on a mine ends in lost with losingCell the target
\* and every mine revealed, and reveals no cell that is not a mine.
C7_RevealMineLoses ==
  [][(status \notin Terminal) =>
       \A p \in Coords(board) :
         (/\ cellAt(board, p).isMine
          /\ ~cellAt(board, p).isRevealed
          /\ ~cellAt(board, p).isFlagged
          /\ REVEAL(p[1], p[2]))
           => (/\ status' = "lost"
               /\ losingCell' = p
               /\ Mines(board') \subseteq Revealed(board')
               /\ Revealed(board') \ Mines(board') = Revealed(board) \ Mines(board))]_vars

\* A mine was revealed with another mine flagged: the game is lost on
\* losingCell and the flagged mine is revealed too.
C7_Witness ==
  /\ status = "lost"
  /\ losingCell \in Mines(board) \ Flagged(board)
  /\ Mines(board) \cap Flagged(board) # {}
  /\ Mines(board) \subseteq Revealed(board)
  /\ Cardinality(Flagged(board)) = 1

chordOpen(b, p) ==
  /\ cellAt(b, p).isRevealed
  /\ cellAt(b, p).adjacentMines > 0
  /\ Cardinality({q \in Flagged(b) : Adjacent(p, q)}) = cellAt(b, p).adjacentMines

\* C8: chordReveal reveals every neighbour that was neither flagged nor
\* revealed when the cell is revealed, numbered and has exactly adjacentMines
\* flagged neighbours, and returns the board unchanged otherwise.
C8_ChordStrictGate ==
  (inp.fn = "chordReveal" /\ out.done) =>
    IF chordOpen(inp.board, Target)
      THEN \A q \in Hidden(inp.board) \ Flagged(inp.board) :
             Adjacent(q, Target) => cellAt(out.val, q).isRevealed
      ELSE out.val = inp.board

\* A chord with matching flags has revealed a neighbour.
C8_Witness ==
  /\ inp.fn = "chordReveal" /\ out.done
  /\ chordOpen(inp.board, Target)
  /\ Revealed(out.val) # Revealed(inp.board)

\* The cells of S together with the cells of allowed next to one of them,
\* repeated until nothing is added.
RECURSIVE Grow(_, _)
Grow(S, allowed) ==
  LET S2 == S \cup {q \in allowed : \E p \in S : Adjacent(p, q)}
  IN  IF S2 = S THEN S ELSE Grow(S2, allowed)

\* The 8-connected region of zero-count cells containing p, and the numbered
\* cells bordering a set of cells.
ZeroRegion(b, p) == Grow({p}, ZeroCells(b))
Border(b, Z) ==
  {q \in Coords(b) \ Mines(b) :
     cellAt(b, q).adjacentMines > 0 /\ \E p \in Z : Adjacent(p, q)}

\* The hidden unflagged cells reached from S through the zero-count cells of S.
RECURSIVE Spread(_, _)
Spread(b, S) ==
  LET S2 == S \cup {q \in Hidden(b) \ Flagged(b) :
                      \E p \in S \cap ZeroCells(b) : Adjacent(p, q)}
  IN  IF S2 = S THEN S ELSE Spread(b, S2)

zeroTarget(b, p) ==
  /\ ~cellAt(b, p).isRevealed /\ ~cellAt(b, p).isFlagged
  /\ p \in ZeroCells(b)

C10_CheckWinFalseWhileSafeHidden ==
  (inp.fn = "checkWin" /\ out.done) =>
    /\ out.val = (Cardinality(Revealed(inp.board)) + inp.mines
                    = Cardinality(Coords(inp.board)))
    /\ (Coords(inp.board) \ Mines(inp.board)) \ Revealed(inp.board) # {}
         => out.val = FALSE

\* C11: computeAdjacent gives every cell that is not a mine the number of its
\* in-bounds neighbours that are mines, a value in 0..8, gives every mine the
\* count 0, and leaves isMine, isRevealed and isFlagged of every cell alone.
C11_CountsMineNeighbours ==
  (inp.fn = "computeAdjacent" /\ out.done) =>
    /\ DOMAIN out.val = DOMAIN inp.board
    /\ \A r \in DOMAIN inp.board : DOMAIN out.val[r] = DOMAIN inp.board[r]
    /\ \A p \in Coords(inp.board) :
         /\ cellAt(out.val, p).isMine = cellAt(inp.board, p).isMine
         /\ cellAt(out.val, p).isRevealed = cellAt(inp.board, p).isRevealed
         /\ cellAt(out.val, p).isFlagged = cellAt(inp.board, p).isFlagged
         /\ cellAt(out.val, p).adjacentMines \in 0 .. 8
         /\ cellAt(out.val, p).adjacentMines =
              IF cellAt(inp.board, p).isMine THEN 0
              ELSE Cardinality({q \in Mines(inp.board) : Adjacent(p, q)})

\* computeAdjacent has counted eight mines around the middle cell of a board
\* whose cells carried a stale count, one of them a flagged mine.
C11_Witness ==
  /\ inp.fn = "computeAdjacent" /\ out.done
  /\ <<1, 1>> \in Coords(inp.board)
  /\ cellAt(out.val, <<1, 1>>).adjacentMines = 8
  /\ cellAt(inp.board, <<1, 1>>).adjacentMines = 5
  /\ Mines(out.val) \cap Flagged(out.val) # {}
  /\ cellAt(out.val, <<0, 0>>).isRevealed

\* The cells outside the safe cell and its neighbours.
Eligible(b, p) == {q \in Coords(b) : q # p /\ ~Adjacent(q, p)}

\* C12: placeMines always returns; the board it returns has its mines on
\* eligible cells only, exactly mineCount of them when that many cells are
\* eligible and every eligible cell otherwise, and has adjacentMines,
\* isRevealed and isFlagged of every cell as in the input.
C12_PlacesMinOfCountAndEligible ==
  /\ (inp.fn = "placeMines" /\ ~out.done) => ENABLED CallPlaceMines
  /\ (inp.fn = "placeMines" /\ out.done) =>
       LET eligible == Eligible(inp.board, Target)
       IN  /\ Mines(out.val) \subseteq eligible
           /\ inp.mines <= Cardinality(eligible)
                => Cardinality(Mines(out.val)) = inp.mines
           /\ inp.mines > Cardinality(eligible) => Mines(out.val) = eligible
           /\ \A q \in Coords(inp.board) :
                /\ cellAt(out.val, q).adjacentMines = cellAt(inp.board, q).adjacentMines
                /\ cellAt(out.val, q).isRevealed = cellAt(inp.board, q).isRevealed
                /\ cellAt(out.val, q).isFlagged = cellAt(inp.board, q).isFlagged

\* placeMines was asked for more mines than there are eligible cells, on a
\* board of flagged cells with stale counts, and has mined the two eligible
\* cells.
C12_Witness ==
  /\ inp.fn = "placeMines" /\ out.done
  /\ inp.mines > Cardinality(Eligible(inp.board, Target))
  /\ Cardinality(Mines(out.val)) = 2
  /\ Flagged(inp.board) # {}
  /\ cellAt(out.val, Target).adjacentMines = 1

\* placeMines was asked for no more mines than there are eligible cells and
\* has placed them all.
C12_WitnessExact ==
  /\ inp.fn = "placeMines" /\ out.done
  /\ Cardinality(Mines(out.val)) = LibMaxCount
  /\ Cardinality(Eligible(inp.board, Target)) > LibMaxCount

\* C13: a TICK in playing adds exactly 1 to elapsed and changes nothing else,
\* a TICK in idle, won or lost changes nothing, whatever moves come between
\* the ticks; and elapsed changes in no other way except by a reset, so it
\* stays as it is from the step into won or lost until NEW_GAME or
\* SET_DIFFICULTY.
C13_TickOnlyWhilePlaying ==
  [][/\ TICK =>
          IF status = "playing"
            THEN /\ elapsed' = elapsed + 1
                 /\ UNCHANGED <<board, status, difficulty, flagCount, startTime, losingCell>>
            ELSE UNCHANGED gameVars
     /\ (elapsed' # elapsed) =>
          \/ status = "playing" /\ status' = "playing" /\ TICK
          \/ Reset /\ elapsed' = 0]_vars

\* A game was won with the clock at its bound and no flag placed.
C13_Witness ==
  /\ status = "won"
  /\ elapsed = MaxElapsed
  /\ flagCount = 0
  /\ Cardinality(Mines(board)) = DIFFICULTIES[difficulty].mines

\* The next state is the initial state of difficulty d.
FreshNext(d) ==
  /\ status' = "idle"
  /\ difficulty' = d
  /\ flagCount' = 0
  /\ elapsed' = 0
  /\ startTime' = NULL
  /\ losingCell' = NULL
  /\ DOMAIN board' = 0 .. DIFFICULTIES[d].rows - 1
  /\ \A r \in DOMAIN board' :
       /\ DOMAIN board'[r] = 0 .. DIFFICULTIES[d].cols - 1
       /\ \A c \in DOMAIN board'[r] :
            /\ ~board'[r][c].isMine
            /\ ~board'[r][c].isRevealed
            /\ ~board'[r][c].isFlagged
            /\ board'[r][c].adjacentMines = 0

\* C14: from every state NEW_GAME gives the initial state of the current
\* difficulty and SET_DIFFICULTY(d) the initial state of d: idle, a blank
\* board of the difficulty's size, no flags, no time, no start time, no
\* losing cell.
C14_ResetGivesInitialState ==
  [][\/ UNCHANGED vars
     \/ /\ NEW_GAME => FreshNext(difficulty)
        /\ \A d \in Difficulty : SET_DIFFICULTY(d) => FreshNext(d)]_vars

\* SET_DIFFICULTY has replaced a game by the initial state of expert.
C14_Witness ==
  /\ status = "idle"
  /\ difficulty = "expert"
  /\ board = makeEmptyBoard(1, 5)
  /\ flagCount = 0 /\ elapsed = 0 /\ startTime = NULL /\ losingCell = NULL

\* p comes before q, or is q, in the row-major order.
RowMajorLeq(p, q) == p[1] < q[1] \/ (p[1] = q[1] /\ p[2] <= q[2])

\* The mines that chordReveal on p reveals.
ChordMines(b, p) == (Mines(b) \cap Revealed(chordReveal(b, p[1], p[2]))) \ Revealed(b)

\* C15: a CHORD in playing that reveals a mine ends in lost with every mine
\* revealed and losingCell the first, in row-major order, of the mines the
\* chord revealed; a CHORD in another status changes nothing.
C15_ChordOnMineLoses ==
  [][IF status # "playing"
       THEN (\E p \in Coords(board) : CHORD(p[1], p[2])) => UNCHANGED gameVars
       ELSE \/ UNCHANGED vars
            \/ \A p \in Coords(board) :
                 (CHORD(p[1], p[2]) /\ ChordMines(board, p) # {}) =>
                   /\ status' = "lost"
                   /\ Mines(board') = Mines(board)
                   /\ Mines(board') \subseteq Revealed(board')
                   /\ losingCell' \in ChordMines(board, p)
                   /\ \A q \in ChordMines(board, p) : RowMajorLeq(losingCell', q)]_vars

\* A chord has revealed two mines at once and the game is lost on one of
\* them, with two cells that are not mines flagged.
C15_Witness ==
  /\ status = "lost"
  /\ Cardinality(Mines(board)) = 2
  /\ Mines(board) \cap Flagged(board) = {}
  /\ Cardinality(Flagged(board)) = 2
  /\ \E p \in Revealed(board) \ Mines(board) :
       /\ cellAt(board, p).adjacentMines = 2
       /\ Cardinality({q \in Flagged(board) : Adjacent(p, q)}) = 2
       /\ \A q \in Mines(board) : Adjacent(p, q) /\ RowMajorLeq(losingCell, q)

\* C16: revealCell and chordReveal leave every cell that is flagged and
\* hidden in the input flagged and hidden in the result, the target cell and
\* the cells the flood fill comes by alike.
C16_FlaggedStaysHidden ==
  (inp.fn \in {"revealCell", "chordReveal"} /\ out.done) =>
    \A q \in Flagged(inp.board) \ Revealed(inp.board) :
      cellAt(out.val, q).isFlagged /\ ~cellAt(out.val, q).isRevealed

\* The flood fill of revealCell has revealed a zero cell next to a flagged
\* cell that is no mine, and has left the flagged cell hidden.
C16_Witness ==
  /\ inp.fn = "revealCell" /\ out.done
  /\ Cardinality(Revealed(out.val) \ Revealed(inp.board)) >= 3
  /\ \E q \in Flagged(inp.board) \ (Revealed(inp.board) \cup Mines(inp.board)) :
       /\ ~cellAt(out.val, q).isRevealed
       /\ q # Target
       /\ \E z \in Revealed(out.val) \ Revealed(inp.board) :
            z # Target /\ z \in ZeroCells(out.val) /\ Adjacent(z, q)

\* chordReveal has revealed cells and left the flagged neighbours hidden.
C16_WitnessChord ==
  /\ inp.fn = "chordReveal" /\ out.done
  /\ Revealed(out.val) # Revealed(inp.board)
  /\ \E q \in Flagged(inp.board) : Adjacent(q, Target) /\ ~cellAt(out.val, q).isRevealed

\* revealCell was called on a flagged hidden cell.
C16_WitnessTarget ==
  /\ inp.fn = "revealCell" /\ out.done
  /\ cellAt(inp.board, Target).isFlagged /\ ~cellAt(inp.board, Target).isRevealed
  /\ out.val = inp.board

\* The board keeps its size over the step.
SameShape ==
  /\ DOMAIN board' = DOMAIN board
  /\ \A r \in DOMAIN board : DOMAIN board'[r] = DOMAIN board[r]

\* Over the step: revealed cells stay revealed; isMine and adjacentMines of
\* every cell stay as they are; isRevealed of every cell stays as it is.
StaysRevealed ==
  \A r \in DOMAIN board : \A c \in DOMAIN board[r] :
    board[r][c].isRevealed => board'[r][c].isRevealed

MinesFixed ==
  \A r \in DOMAIN board : \A c \in DOMAIN board[r] :
    /\ board'[r][c].isMine = board[r][c].isMine
    /\ board'[r][c].adjacentMines = board[r][c].adjacentMines

RevealedFixed ==
  \A r \in DOMAIN board : \A c \in DOMAIN board[r] :
    board'[r][c].isRevealed = board[r][c].isRevealed

\* C17: over every REVEAL, FLAG, CHORD and TICK step a revealed cell stays
\* revealed and, once the game has left idle (the first REVEAL places the
\* mines on its way out of idle), isMine and adjacentMines of every cell stay
\* as they are; over every FLAG step, in idle too, isRevealed, isMine and
\* adjacentMines of every cell stay as they are.
C17_CellAttributesStable ==
  [][\/ UNCHANGED board
     \/ /\ \/ SameShape /\ StaysRevealed /\ (status # "idle" => MinesFixed)
           \/ ~Move
        /\ \/ SameShape /\ MinesFixed /\ RevealedFixed
           \/ ~(\E p \in Coords(board) : FLAG(p[1], p[2]))]_vars

\* A game with its mines placed has seen reveals, flags and ticks.
C17_Witness ==
  /\ status = "playing"
  /\ Cardinality(Mines(board)) = DIFFICULTIES[difficulty].mines
  /\ Cardinality(Revealed(board)) >= 2
  /\ flagCount = MaxFlags
  /\ elapsed = MaxElapsed
  /\ Mines(board) \cap Flagged(board) # {}

\* The move A can be made, and however it is made it leaves the game as it is.
NoOpMove(A) == ENABLED A /\ ~ENABLED (A /\ ~UNCHANGED gameVars)

FlagsAround(b, p) == Cardinality({q \in Flagged(b) : Adjacent(p, q)})

\* C18: in idle and playing, REVEAL on a revealed or flagged cell, FLAG on a
\* revealed cell, CHORD in idle, and CHORD in playing on a cell that is
\* hidden, has adjacentMines = 0 or a number of flagged neighbours other than
\* adjacentMines, all return, and return the state they were given.
C18_IllegalMovesAreNoOps ==
  (status \notin Terminal) =>
    \A p \in Coords(board) :
      /\ (cellAt(board, p).isRevealed \/ cellAt(board, p).isFlagged)
           => NoOpMove(REVEAL(p[1], p[2]))
      /\ cellAt(board, p).isRevealed => NoOpMove(FLAG(p[1], p[2]))
      /\ (\/ status = "idle"
          \/ ~cellAt(board, p).isRevealed
          \/ cellAt(board, p).adjacentMines = 0
          \/ FlagsAround(board, p) # cellAt(board, p).adjacentMines)
           => NoOpMove(CHORD(p[1], p[2]))

\* A running game has a flagged mine, a revealed cell without mine
\* neighbours, and a revealed numbered cell with too many flags around it.
C18_Witness ==
  /\ status = "playing"
  /\ Mines(board) \cap Flagged(board) # {}
  /\ Revealed(board) \cap ZeroCells(board) # {}
  /\ \E p \in Revealed(board) :
       /\ cellAt(board, p).adjacentMines > 0
       /\ FlagsAround(board, p) > cellAt(board, p).adjacentMines

\* What the claim says of the board after a REVEAL on p in idle: the mine
\* count of the difficulty, no mine on p nor next to it, and every count
\* that of the mines placed.
FirstRevealBoard(p) ==
  /\ Cardinality(Mines(board')) = DIFFICULTIES[difficulty].mines
  /\ \A q \in Mines(board') : q # p /\ ~Adjacent(q, p)
  /\ \A q \in Coords(board') :
       cellAt(board', q).adjacentMines =
         IF cellAt(board', q).isMine THEN 0
         ELSE Cardinality({m \in Mines(board') : Adjacent(q, m)})

\* C19 as stated: a REVEAL in idle places the mines of the difficulty away
\* from the target, with consistent counts, and ends in playing.
C19_FirstRevealStartsPlaying ==
  [][(status = "idle") =>
       \A p \in Coords(board) :
         REVEAL(p[1], p[2]) => (FirstRevealBoard(p) /\ status' = "playing")]_vars

\* C19: a REVEAL in idle places the mines of the difficulty away from the
\* target, with consistent counts, and ends in won when it has revealed every
\* cell that is not a mine, in playing otherwise.
C19_FirstRevealStartsOrWins ==
  [][(status = "idle") =>
       \A p \in Coords(board) :
         REVEAL(p[1], p[2]) =>
           /\ FirstRevealBoard(p)
           /\ cellAt(board', p).isRevealed
           /\ status' = IF (Coords(board') \ Mines(board')) \subseteq Revealed(board')
                          THEN "won" ELSE "playing"]_vars

\* A game is won with no tick and no flag, all on reveals: the first REVEAL
\* can end it.
C19_Witness ==
  /\ status = "won"
  /\ elapsed = 0 /\ flagCount = 0
  /\ Cardinality(Mines(board)) = DIFFICULTIES[difficulty].mines
  /\ Revealed(board) = Coords(board) \ Mines(board)

\* C20: flagCount is the number of flagged cells of the board, so it is
\* neither negative nor larger than the number of cells.
C20_FlagCountIsFlaggedCells ==
  /\ flagCount = Cardinality(Flagged(board))
  /\ flagCount >= 0
  /\ flagCount <= Cardinality(Coords(board))

\* More cells are flagged than the difficulty has mines, on a board with its
\* mines placed and a cell revealed; none of the flags is on a mine.
C20_Witness ==
  /\ flagCount > DIFFICULTIES[difficulty].mines
  /\ Cardinality(Mines(board)) = DIFFICULTIES[difficulty].mines
  /\ status = "playing"
  /\ Revealed(board) # {}
  /\ Mines(board) \cap Flagged(board) = {}

\* C21: a revealed mine exists exactly when the game is lost, and losingCell
\* is set exactly when the game is lost; in a lost game losingCell is a cell
\* of the board that is a revealed mine, and every mine is revealed.
C21_LostIffRevealedMine ==
  /\ (Mines(board) \cap Revealed(board) # {}) <=> (status = "lost")
  /\ (losingCell # NULL) <=> (status = "lost")
  /\ status = "lost" =>
       /\ losingCell \in Coords(board)
       /\ cellAt(board, losingCell).isMine
       /\ cellAt(board, losingCell).isRevealed
       /\ Mines(board) \subseteq Revealed(board)

\* A game lost after some safe play and a tick: two mines are revealed, one
\* of them the losing cell, next to revealed cells that are not mines.
C21_Witness ==
  /\ status = "lost"
  /\ elapsed > 0
  /\ losingCell \in Mines(board) \cap Revealed(board)
  /\ Cardinality(Mines(board) \cap Revealed(board)) = 2
  /\ Revealed(board) \ Mines(board) # {}

TypeOK ==
  /\ status \in {"idle", "playing", "won", "lost"}
  /\ difficulty \in Difficulty
  /\ flagCount \in 0 .. MaxFlags
  /\ elapsed \in 0 .. MaxElapsed
====
